---- MODULE Spec2Model ----
(***************************************************************************)
(* Model of ymrp/parser.py: the acquisition sequence of                    *)
(* YandexMapReviewsParser (container wait, _view_all_reviews,              *)
(* _expand_all_reviews, snapshot capture) followed by the record           *)
(* extraction of YandexMapReviewsHtmlCodeParser.parse_yandex_reviews, as   *)
(* driven by Parser.get_yandex_reviews.                                    *)
(*                                                                         *)
(* Text is a sequence of one-character strings.  A Cyrillic letter is      *)
(* written as one atom named by its transliteration ("ya" is the letter    *)
(* YA); Latin letters of the test data are upper case.                     *)
(*                                                                         *)
(* The page is the environment: every count, query result, click outcome   *)
(* and the captured markup is a nondeterministic choice.                   *)
(***************************************************************************)
EXTENDS Integers, Sequences, FiniteSets, TLC

\* ---------------------------------------------------------------- bounds
MaxCount == 3       \* largest item count a poll can observe
MaxPolls == 3       \* observed counts remembered by the history window
MaxButtons == 2     \* largest number of controls an expander query returns
IterSlack == 2      \* pass counters saturate at MIN_ITERATIONS + IterSlack
MaxClicks == 3      \* click-attempt counters saturate here
MaxNodes == 3       \* largest number of review nodes in a snapshot

\* ------------------------------------------------------ program constants
MIN_ITERATIONS == 10

IterCap == MIN_ITERATIONS + IterSlack

\* n + 1, saturating at cap: the values above cap are not told apart
Sat(n, cap) == IF n < cap THEN n + 1 ELSE cap

Last(s) == s[Len(s)]

VARIABLES
  pc,                 \* position of the single thread of control
  playwright,         \* the sync_playwright() scope: "unopened", "open", "closed"
  raised,             \* exception propagated to the caller, "none" if none
  result,             \* value returned by get_yandex_reviews
  returned,           \* TRUE once get_yandex_reviews has returned
  prev_review_count,  \* local of _view_all_reviews
  review_count,       \* local of _view_all_reviews
  more_buttons,       \* local of _expand_all_reviews
  iterations,         \* local of _expand_all_reviews
  html_content,       \* the captured snapshot: the review nodes of the markup
  review_cards,       \* local of parse_yandex_reviews
  reviews,            \* local of parse_yandex_reviews
  card,               \* index of the next node of the for loop
  \* ---- observations of the run (history, not program state)
  steps,              \* the orchestrator's steps, in the order they completed
  polls,              \* the last MaxPolls counts observed by _view_all_reviews
  npolls,             \* number of polls, saturating at MaxPolls + 1
  mono,               \* the observed counts were non-decreasing so far
  va_clicks,          \* click attempts of _view_all_reviews (saturating)
  te_passes,          \* passes of _expand_all_reviews (saturating)
  te_clicks,          \* click attempts of _expand_all_reviews (saturating)
  te_all_empty,       \* every expander query so far returned no control
  te_empty_run,       \* trailing consecutive passes whose query was empty
  pass_log,           \* click attempts of the last pass: <<control, result>>
  beat,               \* parity of the number of passes (a pass is a step)
  last_click,         \* result of the last _click_on_element call
  last_outcome,       \* outcome of the click of that call, "none" before it
  skipped             \* indices of the nodes whose extraction raised

vars == <<pc, playwright, raised, result, returned, prev_review_count,
          review_count, more_buttons, iterations, html_content, review_cards,
          reviews, card, steps, polls, npolls, mono, va_clicks, te_passes,
          te_clicks, te_all_empty, te_empty_run, pass_log, beat, last_click,
          last_outcome, skipped>>

acq_locals == <<prev_review_count, review_count, more_buttons, iterations>>
va_hist == <<polls, npolls, mono, va_clicks>>
te_hist == <<te_passes, te_clicks, te_all_empty, te_empty_run, pass_log, beat>>
acq_hist == <<va_hist, te_hist>>
parse_vars == <<html_content, review_cards, reviews, card, skipped>>
call_vars == <<raised, result, returned>>
click_obs == <<last_click, last_outcome>>

\* ------------------------------------------------------------------ text
Whitespace == {" ", "\t", "\n"}

RECURSIVE lstrip(_)
lstrip(s) == IF s # <<>> /\ Head(s) \in Whitespace THEN lstrip(Tail(s)) ELSE s

RECURSIVE rstrip(_)
rstrip(s) ==
  IF s # <<>> /\ Last(s) \in Whitespace
  THEN rstrip(SubSeq(s, 1, Len(s) - 1))
  ELSE s

\* str.strip(): leading and trailing whitespace removed
strip(s) == rstrip(lstrip(s))

RECURSIVE split_from(_, _, _)
split_from(s, word, parts) ==
  IF s = <<>>
  THEN IF word = <<>> THEN parts ELSE Append(parts, word)
  ELSE IF Head(s) \in Whitespace
       THEN split_from(Tail(s), <<>>,
                       IF word = <<>> THEN parts ELSE Append(parts, word))
       ELSE split_from(Tail(s), Append(word, Head(s)), parts)

\* str.split(): the maximal runs of non-whitespace characters
split(s) == split_from(s, <<>>, <<>>)

RECURSIVE zeros(_)
zeros(n) == IF n <= 0 THEN <<>> ELSE <<"0">> \o zeros(n - 1)

\* Mutant: no padding
zfill_unpadded(s, width) == s

\* str.zfill(width): zeros inserted after a leading sign
zfill(s, width) ==
  IF Len(s) >= width THEN s
  ELSE IF s # <<>> /\ Head(s) \in {"+", "-"}
       THEN <<Head(s)>> \o zeros(width - Len(s)) \o Tail(s)
       ELSE zeros(width - Len(s)) \o s

DigitChars == <<"0", "1", "2", "3", "4", "5", "6", "7", "8", "9">>
Digits == {DigitChars[i] : i \in 1..10}
DigitValue(c) == (CHOOSE i \in 1..10 : DigitChars[i] = c) - 1

RECURSIVE str(_)
\* str(n) of a non-negative integer
str(n) ==
  IF n < 10 THEN <<DigitChars[n + 1]>>
  ELSE str(n \div 10) \o <<DigitChars[(n % 10) + 1]>>

RECURSIVE digits_value(_, _)
digits_value(s, acc) ==
  IF s = <<>> THEN acc
  ELSE digits_value(Tail(s), 10 * acc + DigitValue(Head(s)))

\* ------------------------------------------------- results and exceptions
Return(v) == [exc |-> "none", val |-> v]
Raise(e) == [exc |-> e, val |-> <<>>]
Raises(r) == r.exc # "none"

\* float(s) for decimal literals: optional sign, digits, optional point and
\* digits, at least one digit; the value keeps its whole part and its
\* fraction digits apart
float(s) ==
  LET t == strip(s)
      signed == t # <<>> /\ Head(t) \in {"+", "-"}
      body == IF signed THEN Tail(t) ELSE t
      points == {i \in 1..Len(body) : body[i] = "."}
      point == IF points = {} THEN Len(body) + 1
               ELSE CHOOSE i \in points : \A j \in points : i <= j
      whole == SubSeq(body, 1, point - 1)
      frac == SubSeq(body, point + 1, Len(body))
      wellformed == /\ Cardinality(points) <= 1
                    /\ \A i \in 1..Len(whole) : whole[i] \in Digits
                    /\ \A i \in 1..Len(frac) : frac[i] \in Digits
                    /\ Len(whole) + Len(frac) >= 1
  IN IF wellformed
     THEN Return([neg |-> signed /\ Head(t) = "-",
                  whole |-> digits_value(whole, 0),
                  frac |-> frac])
     ELSE Raise("ValueError")

\* int(x) of a float: truncation toward zero
int(x) == IF x.neg THEN 0 - x.whole ELSE x.whole

\* constants.months: Cyrillic genitive month name -> two-digit month code
months ==
  { << <<"ya", "n", "v", "a", "r", "ya">>, <<"0", "1">> >>,
    << <<"f", "e", "v", "r", "a", "l", "ya">>, <<"0", "2">> >>,
    << <<"m", "a", "r", "t", "a">>, <<"0", "3">> >>,
    << <<"a", "p", "r", "e", "l", "ya">>, <<"0", "4">> >>,
    << <<"m", "a", "ya">>, <<"0", "5">> >>,
    << <<"i", "yu", "n", "ya">>, <<"0", "6">> >>,
    << <<"i", "yu", "l", "ya">>, <<"0", "7">> >>,
    << <<"a", "v", "g", "u", "s", "t", "a">>, <<"0", "8">> >>,
    << <<"s", "e", "n", "t", "ya", "b", "r", "ya">>, <<"0", "9">> >>,
    << <<"o", "k", "t", "ya", "b", "r", "ya">>, <<"1", "0">> >>,
    << <<"n", "o", "ya", "b", "r", "ya">>, <<"1", "1">> >>,
    << <<"d", "e", "k", "a", "b", "r", "ya">>, <<"1", "2">> >> }

\* dict.get(key, default)
months_get(key, default) ==
  IF \E e \in months : e[1] = key
  THEN (CHOOSE e \in months : e[1] = key)[2]
  ELSE default

\* ----------------------------------------------------------- review nodes
\* What review.find(...) yields for each sub-element of one review node.
NoElement == [present |-> FALSE, text |-> <<>>]
Element(text) == [present |-> TRUE, text |-> text]
NoMeta == [present |-> FALSE, has_content |-> FALSE, content |-> <<>>]
MetaNoContent == [present |-> TRUE, has_content |-> FALSE, content |-> <<>>]
Meta(content) == [present |-> TRUE, has_content |-> TRUE, content |-> content]

Node(name, rating, text, date) ==
  [name |-> name, rating |-> rating, text |-> text, date |-> date]

\* ------------------------------------------- YandexMapReviewsHtmlCodeParser
_convert_date(date_str, now_year) ==
  LET parts == split(date_str) IN
  IF Len(parts) \notin {2, 3}
  THEN Raise("ValueError")      \* tuple unpacking of a wrong number of values
  ELSE LET day == parts[1]
           month_name == parts[2]
           year == IF Len(parts) = 3 THEN parts[3] ELSE str(now_year)
           month == months_get(month_name, <<"0", "1">>)
       IN Return(year \o <<"-">> \o month \o <<"-">> \o zfill(day, 2))

_parse_review_name(review) ==
  IF review.name.present
  THEN Return(strip(review.name.text))
  ELSE Raise("Exception")

_parse_review_rating(review) ==
  IF ~review.rating.present THEN Raise("TypeError")      \* None['content']
  ELSE IF ~review.rating.has_content THEN Raise("KeyError")
  ELSE LET rating == float(review.rating.content) IN
       IF Raises(rating) THEN rating ELSE Return(int(rating.val))

_parse_review_text(review) ==
  IF review.text.present
  THEN Return(strip(review.text.text))
  ELSE Raise("Exception")

_parse_review_date(review, now_year) ==
  IF review.date.present
  THEN _convert_date(strip(review.date.text), now_year)
  ELSE Raise("Exception")

\* Mutant: a failing date leaves a record without its date instead of raising
parse_yandex_review_partial(review, now_year) ==
  LET name == _parse_review_name(review)
      rating == _parse_review_rating(review)
      text == _parse_review_text(review)
      date == _parse_review_date(review, now_year)
  IN IF Raises(name) THEN name
     ELSE IF Raises(rating) THEN rating
     ELSE IF Raises(text) THEN text
     ELSE Return([name |-> name.val, rating |-> rating.val,
                  text |-> text.val, date |-> date.val])

\* The dict display evaluates its four values in order; the first exception
\* propagates and no dict is built.
parse_yandex_review(review, now_year) ==
  LET name == _parse_review_name(review)
      rating == _parse_review_rating(review)
      text == _parse_review_text(review)
      date == _parse_review_date(review, now_year)
  IN IF Raises(name) THEN name
     ELSE IF Raises(rating) THEN rating
     ELSE IF Raises(text) THEN text
     ELSE IF Raises(date) THEN date
     ELSE Return([name |-> name.val, rating |-> rating.val,
                  text |-> text.val, date |-> date.val])

\* --------------------------------------------------- the page (environment)
\* Outcomes of one Locator.click: it completed, it timed out, or the target
\* was missing or stale.
ClickOutcomes == {"clicked", "timeout", "missing"}

\* The list a locator query returns: controls 1..n in document order
Controls(n) == [i \in 1..n |-> i]

\* Values datetime.now().year can take during a run
Years == {2025, 2026}

T_5_may_2023 == <<"5", " ", "m", "a", "ya", " ", "2", "0", "2", "3">>
T_12_may == <<"1", "2", " ", "m", "a", "ya">>

WellFormedA ==
  Node(Element(<<" ", "A">>), Meta(<<"5">>), Element(<<"T">>),
       Element(T_5_may_2023))
WellFormedB ==
  Node(Element(<<"B">>), Meta(<<"4", ".", "9">>), Element(<<"U", "\n">>),
       Element(T_12_may))
NoNameNode ==
  Node(NoElement, Meta(<<"5">>), Element(<<"T">>), Element(T_5_may_2023))
NoRatingNode ==
  Node(Element(<<"C">>), NoMeta, Element(<<"T">>), Element(T_5_may_2023))
NoRatingContentNode ==
  Node(Element(<<"C">>), MetaNoContent, Element(<<"T">>), Element(T_5_may_2023))
BadRatingNode ==
  Node(Element(<<"C">>), Meta(<<"X">>), Element(<<"T">>), Element(T_5_may_2023))
NoTextNode ==
  Node(Element(<<"C">>), Meta(<<"3">>), NoElement, Element(T_5_may_2023))
NoDateNode ==
  Node(Element(<<"C">>), Meta(<<"3">>), Element(<<"T">>), NoElement)
OneTokenDateNode ==
  Node(Element(<<"C">>), Meta(<<"3">>), Element(<<"T">>), Element(<<"5">>))

\* The review nodes a captured snapshot is made of
NodeSet ==
  {WellFormedA, WellFormedB, NoNameNode, NoRatingNode, NoRatingContentNode,
   BadRatingNode, NoTextNode, NoDateNode, OneTokenDateNode}

\* soup.find_all('div', class_=...) of a snapshot: its review nodes in
\* document order
Snapshots == UNION {[1..n -> NodeSet] : n \in 0..MaxNodes}

\* Date texts of review nodes: a day token, a month token of the vocabulary
\* or outside it, and a year token or none, with the whitespace the page
\* puts around them; and texts of zero, one and four tokens
DayTokens == {<<"5">>, <<"0", "5">>, <<"1", "2">>, <<"1", "2", "3">>}
MonthNames == {e[1] : e \in months}
MonthTokens == MonthNames \cup {<<"m", "a", "i">>}
YearTokens == {<<"2", "0", "2", "3">>, <<"2", "3">>}
DateTexts ==
  {d \o <<" ">> \o m \o <<" ">> \o y :
     d \in DayTokens, m \in MonthTokens, y \in YearTokens}
  \cup {<<"\n", " ">> \o d \o <<" ", " ">> \o m \o <<"\n">> :
          d \in DayTokens, m \in MonthTokens}
  \cup {<<>>, <<" ">>, <<"5">>, T_5_may_2023 \o <<" ", "g", ".">>}

DateNodes ==
  {Node(Element(<<"C">>), Meta(<<"3">>), Element(<<"T">>), Element(t)) :
     t \in DateTexts}

\* Nodes whose name or text element is present and empty or blank
BlankNodes ==
  {Node(Element(n), Meta(<<"3">>), Element(t), Element(T_5_may_2023)) :
     n \in {<<>>, <<" ">>, <<"C">>}, t \in {<<>>, <<"\n", " ">>, <<"T">>}}

\* html_content arguments of a direct call of parse_yandex_reviews: one
\* node, alone or next to a well-formed one
ParseNodes == NodeSet \cup DateNodes \cup BlankNodes
ParseInputs ==
  {<<n>> : n \in ParseNodes}
  \cup {<<WellFormedB, n>> : n \in ParseNodes}
  \cup {<<n, WellFormedA>> : n \in ParseNodes}

\* ---------------------------------------------------- YandexMapReviewsParser
\* element.click(button=button, timeout=timeout): returns None, or raises
\* playwright's TimeoutError, or its Error for a missing or stale target
element_click(outcome) ==
  IF outcome = "clicked" THEN Return(<<>>)
  ELSE IF outcome = "timeout" THEN Raise("TimeoutError")
  ELSE Raise("Error")

\* Mutant: the handler catches TimeoutError only
ClickExceptionClasses_narrow == {"TimeoutError"}

\* except Exception: playwright's Error and TimeoutError are Exceptions
ClickExceptionClasses == {"Exception", "Error", "TimeoutError"}

\* try: element.click(...) / except Exception: return False / else: True
_click_on_element(outcome) ==
  LET clicked == element_click(outcome) IN
  IF ~Raises(clicked) THEN Return(TRUE)
  ELSE IF clicked.exc \in ClickExceptionClasses THEN Return(FALSE)
  ELSE clicked

\* with sync_playwright(), launch, new_page, goto
open_page ==
  /\ pc = "get_yandex_reviews"
  /\ \E loaded \in BOOLEAN :
       IF loaded
       THEN /\ pc' = "wait_for_selector"
            /\ playwright' = "open"
            /\ UNCHANGED raised
       ELSE /\ pc' = "raised"
            /\ playwright' = "closed"
            /\ raised' = "Error"
  /\ UNCHANGED <<result, returned, acq_locals, acq_hist, parse_vars, steps,
                 click_obs>>

\* Mutant: the timeout of the wait is noted and the sequence goes on
wait_for_selector_goes_on ==
  /\ pc = "wait_for_selector"
  /\ \E visible \in BOOLEAN :
       /\ pc' = "click_container"
       /\ steps' = Append(steps, "wait_for_selector")
       /\ raised' = IF visible THEN raised ELSE "TimeoutError"
       /\ UNCHANGED playwright
  /\ UNCHANGED <<result, returned, acq_locals, acq_hist, parse_vars,
                 click_obs>>

\* Mutant: the timeout reaches the caller with the browser left running
wait_for_selector_leaks ==
  /\ pc = "wait_for_selector"
  /\ \E visible \in BOOLEAN :
       IF visible
       THEN /\ pc' = "click_container"
            /\ steps' = Append(steps, "wait_for_selector")
            /\ UNCHANGED <<raised, playwright>>
       ELSE /\ pc' = "raised"
            /\ raised' = "TimeoutError"
            /\ UNCHANGED <<steps, playwright>>
  /\ UNCHANGED <<result, returned, acq_locals, acq_hist, parse_vars,
                 click_obs>>

\* page.wait_for_selector(REVIEWS_CONTAINER, timeout=BIG_TIMEOUT, ...): a
\* timeout leaves the with block and reaches the caller
wait_for_selector ==
  /\ pc = "wait_for_selector"
  /\ \E visible \in BOOLEAN :
       IF visible
       THEN /\ pc' = "click_container"
            /\ steps' = Append(steps, "wait_for_selector")
            /\ UNCHANGED <<raised, playwright>>
       ELSE /\ pc' = "raised"
            /\ raised' = "TimeoutError"
            /\ playwright' = "closed"
            /\ UNCHANGED steps
  /\ UNCHANGED <<result, returned, acq_locals, acq_hist, parse_vars,
                 click_obs>>

\* self._click_on_element(reviews_container)
click_container ==
  /\ pc = "click_container"
  /\ \E outcome \in ClickOutcomes :
       LET click == _click_on_element(outcome) IN
       /\ last_outcome' = outcome
       /\ IF Raises(click)
          THEN /\ raised' = click.exc
               /\ pc' = "raised"
               /\ playwright' = "closed"
               /\ UNCHANGED <<last_click, steps>>
          ELSE /\ last_click' = click.val
               /\ steps' = Append(steps, "click_container")
               /\ pc' = "_view_all_reviews"
               /\ UNCHANGED <<raised, playwright>>
  /\ UNCHANGED <<result, returned, acq_locals, acq_hist, parse_vars>>

\* Mutant: prev_review_count starts at a value no count can take
view_all_enter_prev_unset ==
  /\ pc = "_view_all_reviews"
  /\ prev_review_count' = 0 - 1
  /\ review_count' = 0
  /\ pc' = "view_all_loop"
  /\ UNCHANGED <<playwright, call_vars, more_buttons, iterations, acq_hist,
                 parse_vars, steps, click_obs>>

\* last_review = None; prev_review_count, review_count = 0, 0
view_all_enter ==
  /\ pc = "_view_all_reviews"
  /\ prev_review_count' = 0
  /\ review_count' = 0
  /\ pc' = "view_all_loop"
  /\ UNCHANGED <<playwright, call_vars, more_buttons, iterations, acq_hist,
                 parse_vars, steps, click_obs>>

\* Mutant: the loop breaks as soon as the count has not shrunk
view_all_converged_le(prev, count) == prev <= count

\* Mutant: the loop breaks only when the count has shrunk
view_all_converged_gt(prev, count) == prev > count

\* if prev_review_count == review_count: break
view_all_converged(prev, count) == prev = count

\* Mutant: a click that fails ends the loop as well
view_all_iteration_click_decides ==
  /\ pc = "view_all_loop"
  /\ \E count \in 0..MaxCount, outcome \in ClickOutcomes :
       /\ count = 0 => outcome # "clicked"
       /\ review_count' = count
       /\ polls' = IF Len(polls) < MaxPolls THEN Append(polls, count)
                   ELSE Append(Tail(polls), count)
       /\ npolls' = Sat(npolls, MaxPolls + 1)
       /\ mono' = (mono /\ (polls = <<>> \/ Last(polls) <= count))
       /\ va_clicks' = Sat(va_clicks, MaxClicks)
       /\ last_outcome' = outcome
       /\ LET click == _click_on_element(outcome) IN
          IF Raises(click)
          THEN /\ raised' = click.exc
               /\ pc' = "raised"
               /\ playwright' = "closed"
               /\ UNCHANGED <<last_click, prev_review_count>>
          ELSE /\ last_click' = click.val
               /\ UNCHANGED <<raised, playwright>>
               /\ IF view_all_converged(prev_review_count, count) \/ ~click.val
                  THEN /\ pc' = "view_all_break"
                       /\ UNCHANGED prev_review_count
                  ELSE /\ pc' = "view_all_loop"
                       /\ prev_review_count' = count
  /\ UNCHANGED <<result, returned, more_buttons, iterations, te_hist,
                 parse_vars, steps>>

\* One iteration of while True: settle wait, count query, click on the last
\* item, comparison.  A click on the last of zero items cannot complete.
view_all_iteration ==
  /\ pc = "view_all_loop"
  /\ \E count \in 0..MaxCount, outcome \in ClickOutcomes :
       /\ count = 0 => outcome # "clicked"
       /\ review_count' = count
       /\ polls' = IF Len(polls) < MaxPolls THEN Append(polls, count)
                   ELSE Append(Tail(polls), count)
       /\ npolls' = Sat(npolls, MaxPolls + 1)
       /\ mono' = (mono /\ (polls = <<>> \/ Last(polls) <= count))
       /\ va_clicks' = Sat(va_clicks, MaxClicks)
       /\ last_outcome' = outcome
       /\ LET click == _click_on_element(outcome) IN
          IF Raises(click)
          THEN /\ raised' = click.exc
               /\ pc' = "raised"
               /\ playwright' = "closed"
               /\ UNCHANGED <<last_click, prev_review_count>>
          ELSE /\ last_click' = click.val
               /\ UNCHANGED <<raised, playwright>>
               /\ IF view_all_converged(prev_review_count, count)
                  THEN /\ pc' = "view_all_break"
                       /\ UNCHANGED prev_review_count
                  ELSE /\ pc' = "view_all_loop"
                       /\ prev_review_count' = count
  /\ UNCHANGED <<result, returned, more_buttons, iterations, te_hist,
                 parse_vars, steps>>

\* Mutant: the orchestrator goes from _view_all_reviews to the settle wait
view_all_return_skips_expand ==
  /\ pc = "view_all_break"
  /\ pc' = "settle"
  /\ steps' = Append(steps, "_view_all_reviews")
  /\ prev_review_count' = 0
  /\ review_count' = 0
  /\ polls' = <<>>
  /\ npolls' = 0
  /\ mono' = TRUE
  /\ va_clicks' = 0
  /\ last_click' = FALSE
  /\ last_outcome' = "none"
  /\ UNCHANGED <<playwright, call_vars, more_buttons, iterations, te_hist,
                 parse_vars>>

\* _view_all_reviews returns: its locals and the observations of the call
\* are gone
view_all_return ==
  /\ pc = "view_all_break"
  /\ pc' = "_expand_all_reviews"
  /\ steps' = Append(steps, "_view_all_reviews")
  /\ prev_review_count' = 0
  /\ review_count' = 0
  /\ polls' = <<>>
  /\ npolls' = 0
  /\ mono' = TRUE
  /\ va_clicks' = 0
  /\ last_click' = FALSE
  /\ last_outcome' = "none"
  /\ UNCHANGED <<playwright, call_vars, more_buttons, iterations, te_hist,
                 parse_vars>>

\* more_buttons = page.locator(REVIEW_VIEW_EXPAND).all(); iterations = 0
expand_all_enter ==
  /\ pc = "_expand_all_reviews"
  /\ \E n \in 0..MaxButtons :
       /\ more_buttons' = Controls(n)
       /\ te_all_empty' = (n = 0)
  /\ iterations' = 0
  /\ pc' = "expand_all_loop"
  /\ UNCHANGED <<playwright, call_vars, prev_review_count, review_count,
                 va_hist, te_passes, te_clicks, te_empty_run, pass_log, beat,
                 parse_vars, steps, click_obs>>

\* Mutant: the loop ends at the floor whatever the last query returned
expand_all_continue_floor_only(iters, buttons) == iters < MIN_ITERATIONS

\* Mutant: the floor is tested with <= (one pass too many)
expand_all_continue_le(iters, buttons) ==
  iters <= MIN_ITERATIONS \/ Len(buttons) # 0

\* Mutant: the two conditions are joined by and
expand_all_continue_and(iters, buttons) ==
  iters < MIN_ITERATIONS /\ Len(buttons) # 0

\* Mutant: the emptiness test is inverted
expand_all_continue_inverted(iters, buttons) ==
  iters < MIN_ITERATIONS \/ Len(buttons) = 0

\* while iterations < 10 or len(more_buttons) != 0
expand_all_continue(iters, buttons) ==
  iters < MIN_ITERATIONS \/ Len(buttons) # 0

\* Mutant: the for loop is left at the first click that fails
click_each_until_failure(buttons, outcomes) ==
  LET calls == [i \in 1..Len(buttons) |-> _click_on_element(outcomes[i])]
      stops == {i \in 1..Len(buttons) : Raises(calls[i]) \/ ~calls[i].val}
      n == IF stops = {} THEN Len(buttons)
           ELSE CHOOSE i \in stops : \A j \in stops : i <= j
  IN [i \in 1..n |-> <<buttons[i], outcomes[i], calls[i]>>]

\* for button in more_buttons: self._click_on_element(button): the calls
\* made, <<control, outcome, result>>, up to the first one that raises
click_each(buttons, outcomes) ==
  LET calls == [i \in 1..Len(buttons) |-> _click_on_element(outcomes[i])]
      stops == {i \in 1..Len(buttons) : Raises(calls[i])}
      n == IF stops = {} THEN Len(buttons)
           ELSE CHOOSE i \in stops : \A j \in stops : i <= j
  IN [i \in 1..n |-> <<buttons[i], outcomes[i], calls[i]>>]

\* One pass of the while loop: query, one click attempt per control, count
expand_all_pass ==
  /\ pc = "expand_all_loop"
  /\ expand_all_continue(iterations, more_buttons)
  /\ \E n \in 0..MaxButtons :
       \E outcomes \in [1..n -> ClickOutcomes] :
         LET attempts == click_each(Controls(n), outcomes)
             escaped == attempts # <<>> /\ Raises(Last(attempts)[3])
         IN
         /\ more_buttons' = Controls(n)
         /\ pass_log' = [i \in 1..Len(attempts) |->
                           <<attempts[i][1], attempts[i][3].val>>]
         /\ te_clicks' = IF te_clicks + Len(attempts) < MaxClicks
                         THEN te_clicks + Len(attempts) ELSE MaxClicks
         /\ last_outcome' = IF attempts = <<>> THEN last_outcome
                            ELSE Last(attempts)[2]
         /\ last_click' = IF attempts = <<>> \/ escaped THEN last_click
                          ELSE Last(attempts)[3].val
         /\ te_all_empty' = (te_all_empty /\ n = 0)
         /\ te_empty_run' = IF n = 0 THEN Sat(te_empty_run, IterCap) ELSE 0
         /\ IF escaped
            THEN /\ raised' = Last(attempts)[3].exc
                 /\ pc' = "raised"
                 /\ playwright' = "closed"
                 /\ UNCHANGED iterations
            ELSE /\ iterations' = Sat(iterations, IterCap)
                 /\ pc' = "expand_all_loop"
                 /\ UNCHANGED <<raised, playwright>>
  /\ te_passes' = Sat(te_passes, IterCap)
  /\ beat' = 1 - beat
  /\ UNCHANGED <<result, returned, prev_review_count, review_count,
                 va_hist, parse_vars, steps>>

\* The while condition is false: the loop ends
expand_all_exit ==
  /\ pc = "expand_all_loop"
  /\ ~expand_all_continue(iterations, more_buttons)
  /\ pc' = "expand_all_done"
  /\ UNCHANGED <<playwright, call_vars, acq_locals, acq_hist, parse_vars,
                 steps, click_obs>>

\* _expand_all_reviews returns: its locals and the observations of the call
\* are gone
expand_all_return ==
  /\ pc = "expand_all_done"
  /\ pc' = "settle"
  /\ steps' = Append(steps, "_expand_all_reviews")
  /\ more_buttons' = <<>>
  /\ iterations' = 0
  /\ te_passes' = 0
  /\ te_clicks' = 0
  /\ te_all_empty' = TRUE
  /\ te_empty_run' = 0
  /\ pass_log' = <<>>
  /\ beat' = 0
  /\ last_click' = FALSE
  /\ last_outcome' = "none"
  /\ UNCHANGED <<playwright, call_vars, prev_review_count, review_count,
                 va_hist, parse_vars>>

\* page.wait_for_timeout(SMALL_TIMEOUT)
settle_wait ==
  /\ pc = "settle"
  /\ pc' = "capture"
  /\ steps' = Append(steps, "settle")
  /\ UNCHANGED <<playwright, call_vars, acq_locals, acq_hist, parse_vars,
                 click_obs>>

\* return reviews_container.inner_html(): the with block ends and the
\* snapshot is handed to parse_yandex_reviews
capture ==
  /\ pc = "capture"
  /\ \E snapshot \in Snapshots : html_content' = snapshot
  /\ playwright' = "closed"
  /\ steps' = Append(steps, "capture")
  /\ pc' = "parse_yandex_reviews"
  /\ UNCHANGED <<call_vars, acq_locals, acq_hist, review_cards, reviews, card,
                 skipped, click_obs>>

\* ------------------------------------------------------ parse_yandex_reviews
\* soup = BeautifulSoup(...); review_cards = soup.find_all(...); reviews = []
parse_enter ==
  /\ pc = "parse_yandex_reviews"
  /\ review_cards' = html_content
  /\ reviews' = <<>>
  /\ card' = 1
  /\ pc' = "parse_loop"
  /\ UNCHANGED <<playwright, call_vars, acq_locals, acq_hist, html_content,
                 skipped, steps, click_obs>>

\* Mutant: the ValueError of a failed unpacking is not caught
ExceptionClasses_unpack_escapes == {"Exception", "TypeError", "KeyError"}

\* Mutant: the handler catches ValueError only
ExceptionClasses_narrow == {"ValueError"}

\* except Exception: every exception the extraction raises is an Exception
ExceptionClasses == {"Exception", "TypeError", "KeyError", "ValueError"}

\* Mutant: the record is put in front of the list
reviews_append_front(list, record) == <<record>> \o list

\* reviews.append(...)
reviews_append(list, record) == Append(list, record)

\* One iteration of for review in review_cards: try / append / except.
\* find_all yields Tag objects only, so isinstance(review, Tag) holds.
parse_card ==
  /\ pc = "parse_loop"
  /\ card <= Len(review_cards)
  /\ \E now_year \in Years :
       LET parsed == parse_yandex_review(review_cards[card], now_year) IN
       IF ~Raises(parsed)
       THEN /\ reviews' = reviews_append(reviews, parsed.val)
            /\ UNCHANGED <<skipped, raised, pc>>
       ELSE IF parsed.exc \in ExceptionClasses
       THEN /\ skipped' = skipped \cup {card}
            /\ UNCHANGED <<reviews, raised, pc>>
       ELSE /\ raised' = parsed.exc
            /\ pc' = "raised"
            /\ UNCHANGED <<reviews, skipped>>
  /\ card' = card + 1
  /\ UNCHANGED <<playwright, result, returned, acq_locals, acq_hist,
                 html_content, review_cards, steps, click_obs>>

\* return reviews, through get_yandex_reviews
parse_return ==
  /\ pc = "parse_loop"
  /\ card > Len(review_cards)
  /\ result' = reviews
  /\ returned' = TRUE
  /\ pc' = "done"
  /\ UNCHANGED <<playwright, raised, acq_locals, acq_hist, parse_vars, steps,
                 click_obs>>

\* ------------------------------------------------------------ specification
\* Parser() is constructed and get_yandex_reviews(url) is about to run
Init ==
  /\ pc = "get_yandex_reviews"
  /\ playwright = "unopened"
  /\ raised = "none"
  /\ result = <<>>
  /\ returned = FALSE
  /\ prev_review_count = 0
  /\ review_count = 0
  /\ more_buttons = <<>>
  /\ iterations = 0
  /\ html_content = <<>>
  /\ review_cards = <<>>
  /\ reviews = <<>>
  /\ card = 1
  /\ steps = <<>>
  /\ polls = <<>>
  /\ npolls = 0
  /\ mono = TRUE
  /\ va_clicks = 0
  /\ te_passes = 0
  /\ te_clicks = 0
  /\ te_all_empty = TRUE
  /\ te_empty_run = 0
  /\ pass_log = <<>>
  /\ beat = 0
  /\ last_click = FALSE
  /\ last_outcome = "none"
  /\ skipped = {}

\* get_reviews_html_content, from its call to its return
AcquisitionNext ==
  \/ open_page
  \/ wait_for_selector
  \/ click_container
  \/ view_all_enter
  \/ view_all_iteration
  \/ view_all_return
  \/ expand_all_enter
  \/ expand_all_pass
  \/ expand_all_exit
  \/ expand_all_return
  \/ settle_wait
  \/ capture

\* get_yandex_reviews: the acquisition, then parse_yandex_reviews
Next ==
  \/ open_page
  \/ wait_for_selector
  \/ click_container
  \/ view_all_enter
  \/ view_all_iteration
  \/ view_all_return
  \/ expand_all_enter
  \/ expand_all_pass
  \/ expand_all_exit
  \/ expand_all_return
  \/ settle_wait
  \/ capture
  \/ parse_enter
  \/ parse_card
  \/ parse_return

Spec == Init /\ [][Next]_vars

\* get_reviews_html_content alone; its single thread of control takes its
\* next step whenever it has one
AcquisitionSpec ==
  Init /\ [][AcquisitionNext]_vars /\ WF_vars(AcquisitionNext)

\* YandexMapReviewsHtmlCodeParser().parse_yandex_reviews(html_content) is
\* about to run on a snapshot obtained elsewhere
ParseInit ==
  /\ pc = "parse_yandex_reviews"
  /\ html_content \in ParseInputs
  /\ playwright = "unopened"
  /\ raised = "none"
  /\ result = <<>>
  /\ returned = FALSE
  /\ prev_review_count = 0
  /\ review_count = 0
  /\ more_buttons = <<>>
  /\ iterations = 0
  /\ review_cards = <<>>
  /\ reviews = <<>>
  /\ card = 1
  /\ steps = <<>>
  /\ polls = <<>>
  /\ npolls = 0
  /\ mono = TRUE
  /\ va_clicks = 0
  /\ te_passes = 0
  /\ te_clicks = 0
  /\ te_all_empty = TRUE
  /\ te_empty_run = 0
  /\ pass_log = <<>>
  /\ beat = 0
  /\ last_click = FALSE
  /\ last_outcome = "none"
  /\ skipped = {}

ParseNext ==
  \/ parse_enter
  \/ parse_card
  \/ parse_return

\* parse_yandex_reviews alone
ParseSpec == ParseInit /\ [][ParseNext]_vars

\* ------------------------------------------------------------- properties
\* Indices of the nodes of the snapshot that left a record
Kept == (1..Len(html_content)) \ skipped

\* The index of the node behind the j-th record, if order is preserved:
\* the j-th smallest kept index
KeptAt(j) == CHOOSE i \in Kept : Cardinality({k \in Kept : k < i}) = j - 1

\* Record extraction from this node raises
ExtractionFails(node) ==
  \A y \in Years : Raises(parse_yandex_review(node, y))

\* Some field extraction of this node raises
SomeFieldFails(node) ==
  \/ Raises(_parse_review_name(node))
  \/ Raises(_parse_review_rating(node))
  \/ Raises(_parse_review_text(node))
  \/ \A y \in Years : Raises(_parse_review_date(node, y))

\* C1: when parse_yandex_reviews has returned for a snapshot of N nodes of
\* which M fail record extraction, the returned list has exactly N - M
\* records and the j-th record is the record of the j-th non-failing node.
C1_CountAndOrder ==
  returned =>
    LET N == Len(html_content)
        failing == {i \in 1..N : ExtractionFails(html_content[i])}
        M == Cardinality(failing)
    IN /\ skipped = failing
       /\ Len(result) = N - M
       /\ \A j \in 1..Len(result) :
            \E y \in Years :
              result[j] = parse_yandex_review(html_content[KeptAt(j)], y).val

\* C1 witness: three nodes, the middle one without a name element, two
\* records returned
C1_Witness ==
  /\ returned
  /\ html_content = <<WellFormedB, NoNameNode, WellFormedA>>
  /\ Len(result) = 2

\* C2: every returned record carries the four fields, each extracted from
\* the one node behind it, and a node of which any field extraction fails
\* leaves no record.
C2_AllOrNothing ==
  returned =>
    /\ \A j \in 1..Len(result) :
         /\ DOMAIN result[j] = {"name", "rating", "text", "date"}
         /\ j <= Cardinality(Kept)
         /\ LET node == html_content[KeptAt(j)] IN
            /\ ~SomeFieldFails(node)
            /\ result[j].name = _parse_review_name(node).val
            /\ result[j].rating = _parse_review_rating(node).val
            /\ result[j].text = _parse_review_text(node).val
            /\ \E y \in Years :
                 result[j].date = _parse_review_date(node, y).val
    /\ \A i \in 1..Len(html_content) :
         SomeFieldFails(html_content[i]) => i \in skipped
    /\ Len(result) = Cardinality(Kept)

\* C2 witness: a node whose date extraction fails after name, rating and
\* text succeeded, next to a well-formed node
C2_Witness ==
  /\ returned
  /\ html_content = <<OneTokenDateNode, WellFormedA>>
  /\ Len(result) = 1

\* Nodes failing for one of the causes: a missing name, text or date
\* element, a missing rating meta element, an unparsable rating value
FailsByCause(node) ==
  \/ ~node.name.present
  \/ ~node.text.present
  \/ ~node.date.present
  \/ ~node.rating.present
  \/ Raises(float(node.rating.content))

\* C3: no extraction failure leaves parse_yandex_reviews: while it runs and
\* after it returned no exception is propagating, every node gone through
\* left a record or was skipped, and a snapshot of two well-formed nodes and
\* one node without rating meta element gives exactly the two records of
\* the well-formed nodes, in order.
C3_NoFailureEscapes ==
  /\ pc \in {"parse_yandex_reviews", "parse_loop", "done"} => raised = "none"
  /\ pc = "raised" => raised \in {"Error", "TimeoutError"}
  /\ pc = "parse_loop" =>
       /\ Len(reviews) + Cardinality(skipped) = card - 1
       /\ \A i \in 1..(card - 1) :
            FailsByCause(review_cards[i]) => i \in skipped
  /\ (/\ returned
      /\ Len(html_content) = 3
      /\ Cardinality({i \in 1..3 : html_content[i] = NoRatingNode}) = 1
      /\ \A i \in 1..3 :
           html_content[i] \in {NoRatingNode, WellFormedA, WellFormedB})
     => /\ Len(result) = 2
        /\ \A j \in 1..2 :
             LET others == {i \in 1..3 : html_content[i] # NoRatingNode}
                 i == CHOOSE k \in others :
                        Cardinality({m \in others : m < k}) = j - 1
             IN \E y \in Years :
                  result[j] = parse_yandex_review(html_content[i], y).val

\* C3 witness: the end-to-end case, the node without rating meta element
\* between the two well-formed ones
C3_Witness ==
  /\ returned
  /\ raised = "none"
  /\ html_content = <<WellFormedA, NoRatingNode, WellFormedB>>
  /\ Len(result) = 2
  /\ skipped = {2}

\* C4: when the wait for the container times out, the TimeoutError reaches
\* the caller of get_yandex_reviews and stays as it is; no step of the
\* sequence has completed or completes afterwards (no click, no poll, no
\* pass, no snapshot, no extraction), nothing is retried and no list is
\* returned.
C4_WaitFailureIsFatal ==
  /\ [](raised = "TimeoutError" =>
          /\ pc = "raised"
          /\ playwright = "closed"
          /\ steps = <<>>
          /\ ~returned
          /\ result = <<>>
          /\ html_content = <<>>
          /\ reviews = <<>>
          /\ skipped = {}
          /\ npolls = 0
          /\ va_clicks = 0
          /\ te_passes = 0
          /\ te_clicks = 0
          /\ ~last_click)
  /\ [][raised = "TimeoutError" => UNCHANGED vars]_vars

\* C4 witness: the wait has timed out
C4_Witness == raised = "TimeoutError" /\ pc = "raised"

\* The steps of get_reviews_html_content, in the order of lines 203-216
AcquisitionOrder ==
  <<"wait_for_selector", "click_container", "_view_all_reviews",
    "_expand_all_reviews", "settle", "capture">>

IsPrefix(s, t) == Len(s) <= Len(t) /\ SubSeq(t, 1, Len(s)) = s

\* get_reviews_html_content has returned a snapshot
SnapshotReturned == pc \in {"parse_yandex_reviews", "parse_loop", "done"}

\* C5: the steps complete in the order wait, container click, ContentLoader,
\* TextExpander, settle wait, capture, each once; a run that returned a
\* snapshot has completed all six; ContentLoader runs after exactly the
\* first two and TextExpander after exactly the first three; after the
\* capture no step and no loop iteration happens.
C5_StepOrder ==
  /\ [](IsPrefix(steps, AcquisitionOrder))
  /\ [](SnapshotReturned => steps = AcquisitionOrder)
  /\ [](pc \in {"view_all_loop", "view_all_break"} =>
          steps = SubSeq(AcquisitionOrder, 1, 2))
  /\ [](pc \in {"expand_all_loop", "expand_all_done"} =>
          steps = SubSeq(AcquisitionOrder, 1, 3))
  /\ [][SnapshotReturned =>
          UNCHANGED <<steps, acq_locals, acq_hist, click_obs, playwright>>]_vars

\* C5 witness: a snapshot was returned after both loops ran
C5_Witness ==
  /\ pc = "parse_yandex_reviews"
  /\ steps = AcquisitionOrder
  /\ html_content # <<>>

\* _view_all_reviews is running or has just left its loop
InViewAll == pc \in {"view_all_loop", "view_all_break"}

\* Comparisons of the observed count against prev_review_count made so far:
\* one per iteration, as polls
VaComparisons == npolls

\* C6 as stated: on the poll sequence [3,3] the loop has terminated after one
\* comparison and one click attempt.
C6_Original ==
  (InViewAll /\ npolls = 2 /\ polls = <<3, 3>>) =>
     (VaComparisons = 1 /\ va_clicks = 1)

\* C6 amended: on the poll sequence [3,3] the first comparison (3 against the
\* initial 0) does not end the loop; the loop ends after the second
\* comparison, with two click attempts made, one per poll.
C6_TwoComparisons ==
  /\ (InViewAll /\ npolls = 1 /\ polls = <<3>>) =>
       (pc = "view_all_loop" /\ prev_review_count = 3 /\ va_clicks = 1)
  /\ (InViewAll /\ npolls = 2 /\ polls = <<3, 3>>) =>
       (pc = "view_all_break" /\ VaComparisons = 2 /\ va_clicks = 2)

\* C6 witness: the loop ended on the poll sequence [3,3]
C6_Witness == pc = "view_all_break" /\ npolls = 2 /\ polls = <<3, 3>>

\* _expand_all_reviews is running or has just left its loop
InExpandAll == pc \in {"expand_all_loop", "expand_all_done"}

\* C7: while every expander query, the one before the loop included, has
\* returned no control, no click is attempted and at most MIN_ITERATIONS
\* passes run; the loop ends after exactly MIN_ITERATIONS passes.
C7_MinimumFloor ==
  (InExpandAll /\ te_all_empty) =>
     /\ te_clicks = 0
     /\ te_passes <= MIN_ITERATIONS
     /\ pc = "expand_all_done" => te_passes = MIN_ITERATIONS
     /\ (pc = "expand_all_loop" /\ te_passes = MIN_ITERATIONS) =>
          ~ENABLED expand_all_pass

\* C7 witness: the loop ended without ever seeing a control
C7_Witness == pc = "expand_all_done" /\ te_all_empty

\* C8 as stated: at termination the last MIN_ITERATIONS passes all had an
\* empty query.
C8_Original ==
  pc = "expand_all_done" => te_empty_run >= MIN_ITERATIONS

\* C8 amended: at termination at least MIN_ITERATIONS passes have run and
\* the query of the last pass was empty; the passes before it may all have
\* found controls.
C8_FloorAndLastEmpty ==
  pc = "expand_all_done" =>
     /\ te_passes >= MIN_ITERATIONS
     /\ te_empty_run >= 1
     /\ more_buttons = <<>>

\* C8 witness: the loop ended at its tenth pass, the only empty one
C8_Witness ==
  /\ pc = "expand_all_done"
  /\ te_passes = MIN_ITERATIONS
  /\ te_empty_run = 1
  /\ te_clicks > 0

\* C9 as stated: once ContentLoader has terminated the run reaches the
\* snapshot capture, whatever the page does.
C9_Original ==
  [](pc = "_expand_all_reviews" => <>(pc = "parse_yandex_reviews"))

\* C9 amended: once ContentLoader has terminated the run reaches the
\* snapshot capture provided the expander query comes back empty again and
\* again for as long as TextExpander runs; a page whose query always
\* returns a control keeps TextExpander running forever.
C9_CaptureIfQueryEmpties ==
  ([]<>(pc = "expand_all_loop" => more_buttons = <<>>))
    => [](pc = "_expand_all_reviews" => <>(pc = "parse_yandex_reviews"))

\* C9 witness: TextExpander ended after more than MIN_ITERATIONS passes,
\* having found controls
C9_Witness ==
  /\ pc = "expand_all_done"
  /\ te_passes > MIN_ITERATIONS
  /\ te_clicks > 0

\* The last two observed counts agree
LastTwoPollsAgree ==
  npolls >= 2 /\ polls[Len(polls)] = polls[Len(polls) - 1]

\* C10 as stated: with non-decreasing (and bounded) observed counts the loop
\* terminates, and at termination the last observed count equals the count
\* of the poll before it.
C10_Original ==
  /\ []mono => [](pc = "view_all_loop" => <>(pc = "view_all_break"))
  /\ [](pc = "view_all_break" => LastTwoPollsAgree)

\* C10 amended: with non-decreasing (and bounded) observed counts the loop
\* terminates, and at termination the last observed count equals the count
\* of the poll before it or, when the loop ended at its first poll, is 0,
\* the initial prev_review_count.
C10_Terminates ==
  /\ []mono => [](pc = "view_all_loop" => <>(pc = "view_all_break"))
  /\ [](pc = "view_all_break" =>
          \/ LastTwoPollsAgree
          \/ npolls = 1 /\ polls = <<0>>)

\* C10 witness: the loop ended on non-decreasing counts after three polls
\* with a failed last click
C10_Witness ==
  /\ pc = "view_all_break"
  /\ mono
  /\ npolls = 3
  /\ polls[1] < polls[2]
  /\ ~last_click

\* Exceptions that leave get_reviews_html_content: those of goto and of
\* wait_for_selector, raised before any click is attempted
RaisedBeforeAnyClick == raised # "none" => last_outcome = "none"

\* C11: _click_on_element never lets an exception out: a call makes one click
\* attempt and returns True when the click completed and False when it timed
\* out or its target was missing or stale; the loops count one attempt per
\* call and no exception of a click ends the run.
C11_ClickNeverRaises ==
  /\ RaisedBeforeAnyClick
  /\ last_outcome # "none" => last_click = (last_outcome = "clicked")
  /\ \A outcome \in ClickOutcomes :
       _click_on_element(outcome) = Return(outcome = "clicked")
  /\ (InViewAll /\ npolls < MaxClicks) => va_clicks = npolls
  /\ InExpandAll => \A i \in 1..Len(pass_log) : pass_log[i][2] \in BOOLEAN

\* C11 witness: a click on a missing target returned False inside the
\* _view_all_reviews loop, which goes on
C11_Witness ==
  /\ pc = "view_all_loop"
  /\ last_outcome = "missing"
  /\ ~last_click
  /\ raised = "none"
  /\ npolls = 2

\* Positions inside the with sync_playwright() block of lines 197-216
InsideWith ==
  pc \in {"wait_for_selector", "click_container", "_view_all_reviews",
          "view_all_loop", "view_all_break", "_expand_all_reviews",
          "expand_all_loop", "expand_all_done", "settle", "capture"}

\* Positions after get_reviews_html_content has been left, by return or by
\* an exception
AfterWith ==
  pc \in {"raised", "parse_yandex_reviews", "parse_loop", "done"}

\* C12: the browser is held exactly while control is inside the with block;
\* on every way out, the return of the snapshot and every exception, the
\* failure of the visibility wait included, it has been released, and it is
\* never taken again.
C12_BrowserReleased ==
  /\ [](InsideWith => playwright = "open")
  /\ [](AfterWith => playwright = "closed")
  /\ [][playwright = "closed" => playwright' = "closed"]_vars

\* C12 witness: the visibility wait failed after the browser had been
\* opened, and the browser is released
C12_Witness ==
  /\ pc = "raised"
  /\ raised = "TimeoutError"
  /\ playwright = "closed"
  /\ html_content = <<>>

\* The node behind the j-th returned record
Origin(j) == html_content[KeptAt(j)]

\* The tokens of a node's date text
DateTokens(node) == split(strip(node.date.text))

MonthCode(month_name) == (CHOOSE e \in months : e[1] = month_name)[2]

\* A token left-padded with zeros to two characters
LeftPad2(token) ==
  IF Len(token) >= 2 THEN token
  ELSE IF Len(token) = 1 THEN <<"0">> \o token
  ELSE <<"0", "0">>

\* C13: the record of a node whose date text is "D M Y" with M in the month
\* vocabulary carries the date Y, "-", the two-digit code of M, "-", and D
\* left-padded with zeros to two digits.
C13_ThreeTokenDate ==
  pc = "done" =>
    \A j \in 1..Len(result) :
      LET parts == DateTokens(Origin(j)) IN
      (Len(parts) = 3 /\ parts[2] \in MonthNames) =>
         result[j].date =
           parts[3] \o <<"-">> \o MonthCode(parts[2]) \o <<"-">>
             \o LeftPad2(parts[1])

\* C13 witness: "5 dekabrya 2023" was returned as "2023-12-05"
C13_Witness ==
  /\ pc = "done"
  /\ Len(result) = 1
  /\ DateTokens(Origin(1)) =
       << <<"5">>, <<"d", "e", "k", "a", "b", "r", "ya">>,
          <<"2", "0", "2", "3">> >>
  /\ result[1].date =
       <<"2", "0", "2", "3", "-", "1", "2", "-", "0", "5">>

\* A date in the form YYYY-MM-DD: four digits, two digits and two digits
\* with "-" between them
Canonical(date) ==
  /\ Len(date) = 10
  /\ \A i \in {1, 2, 3, 4, 6, 7, 9, 10} : date[i] \in Digits
  /\ date[5] = "-"
  /\ date[8] = "-"

\* C14: every record parse_yandex_reviews returns has a date in the form
\* YYYY-MM-DD, with a four-digit year, a two-digit month code and a day of
\* exactly two digits, whatever date text the extraction accepted.
C14_CanonicalDate ==
  pc = "done" => \A j \in 1..Len(result) : Canonical(result[j].date)

\* C15: every record parse_yandex_reviews returns has a non-empty name and a
\* non-empty text; a node whose name or text element is present and blank
\* leaves no record with an empty name or text.
C15_NonEmptyNameAndText ==
  pc = "done" =>
    \A j \in 1..Len(result) : result[j].name # <<>> /\ result[j].text # <<>>

\* The count the i-th poll of the window was compared with: the initial
\* prev_review_count for the first poll, the poll before it otherwise
PrevOf(i) == IF i = 1 THEN 0 ELSE polls[i - 1]

\* Polls of the window whose comparison is known: all of them while the
\* window holds every poll made, all but its first afterwards
Compared == IF npolls <= MaxPolls THEN 1..Len(polls) ELSE 2..Len(polls)

\* The iteration just made ends the loop exactly when the count it observed
\* equals prev_review_count, whatever its click returned
BreakIffEqual ==
  (pc = "view_all_loop" /\ pc' \in {"view_all_loop", "view_all_break"}) =>
     /\ (pc' = "view_all_break") <=> (review_count' = prev_review_count)
     /\ pc' = "view_all_loop" => prev_review_count' = review_count'

\* C16: _view_all_reviews ends at the first iteration whose observed count
\* equals prev_review_count (0 before the first iteration) and at no earlier
\* one; the result of the click plays no part in the decision.
C16_StopsAtFirstEqualCount ==
  /\ [](pc = "view_all_break" =>
          /\ Last(polls) = PrevOf(Len(polls))
          /\ \A i \in Compared \ {Len(polls)} : polls[i] # PrevOf(i))
  /\ [](pc = "view_all_loop" => \A i \in Compared : polls[i] # PrevOf(i))
  /\ [][BreakIffEqual]_vars

\* C16 witness: the counts 2, 3, 3 ended the loop at the third iteration,
\* whose click completed, after a second iteration whose count differed
C16_Witness ==
  /\ pc = "view_all_break"
  /\ npolls = 3
  /\ polls = <<2, 3, 3>>
  /\ last_click

\* C17: at the head of the _expand_all_reviews loop another pass runs exactly
\* when fewer than MIN_ITERATIONS passes have run or the most recent query
\* returned a control, and the loop ends exactly otherwise; so it ends after
\* the first pass, the MIN_ITERATIONS-th or a later one, whose query was
\* empty.
C17_ContinueIffFloorOrControls ==
  /\ pc = "expand_all_loop" =>
       /\ iterations = te_passes
       /\ ENABLED expand_all_pass <=>
            (te_passes < MIN_ITERATIONS \/ more_buttons # <<>>)
       /\ ENABLED expand_all_exit <=>
            (te_passes >= MIN_ITERATIONS /\ more_buttons = <<>>)
  /\ pc = "expand_all_done" =>
       /\ te_passes >= MIN_ITERATIONS
       /\ more_buttons = <<>>
       /\ te_passes > MIN_ITERATIONS => te_empty_run = 1

\* C17 witness: MIN_ITERATIONS passes have run and the last query returned
\* controls, so another pass is due
C17_Witness ==
  /\ pc = "expand_all_loop"
  /\ te_passes = MIN_ITERATIONS
  /\ more_buttons # <<>>
  /\ ENABLED expand_all_pass

\* C18: the click attempts of a pass of _expand_all_reviews are one attempt
\* on each control its query returned, in the order of the query; an attempt
\* that fails does not keep the later controls of the pass from theirs.
C18_OneAttemptPerControl ==
  (InExpandAll /\ te_passes > 0) =>
     /\ Len(pass_log) = Len(more_buttons)
     /\ \A i \in 1..Len(pass_log) :
          pass_log[i][1] = more_buttons[i] /\ pass_log[i][2] \in BOOLEAN

\* C18 witness: in a pass over two controls the click on the first failed
\* and the click on the second completed
C18_Witness ==
  /\ pc = "expand_all_loop"
  /\ more_buttons = <<1, 2>>
  /\ pass_log = << <<1, FALSE>>, <<2, TRUE>> >>

\* The node has a date element whose text is not made of 2 or 3 tokens
UnsupportedDateShape(node) ==
  node.date.present /\ Len(DateTokens(node)) \notin {2, 3}

\* C19: a node whose date text has a number of tokens other than 2 or 3
\* makes _convert_date fail and leaves no record; the nodes whose extraction
\* succeeds keep their records, and no exception leaves
\* parse_yandex_reviews.
C19_UnsupportedDateShapeDropped ==
  /\ raised = "none"
  /\ pc # "raised"
  /\ pc = "done" =>
       /\ returned
       /\ Len(result) = Cardinality(Kept)
       /\ \A i \in 1..Len(html_content) :
            LET node == html_content[i] IN
            /\ UnsupportedDateShape(node) =>
                 /\ i \in skipped
                 /\ \A y \in Years :
                      _convert_date(strip(node.date.text), y)
                        = Raise("ValueError")
            /\ ~ExtractionFails(node) => i \notin skipped

\* C19 witness: of a well-formed node and a node with a four-token date,
\* the first left its record and the second was dropped
C19_Witness ==
  /\ pc = "done"
  /\ Len(html_content) = 2
  /\ html_content[1] = WellFormedB
  /\ Len(DateTokens(html_content[2])) = 4
  /\ skipped = {2}
  /\ Len(result) = 1
  /\ result[1].name = <<"B">>

\* The first poll of this call of _view_all_reviews observed no item
FirstPollZero ==
  InViewAll /\ polls # <<>> /\ npolls <= MaxPolls /\ polls[1] = 0

\* C20: when the first poll of _view_all_reviews observes no item the loop
\* has ended with that iteration, after one count query and one click
\* attempt, whatever later polls would have observed; the next step of the
\* acquisition is _expand_all_reviews.
C20_FirstPollZeroEndsLoop ==
  /\ [](FirstPollZero =>
          /\ pc = "view_all_break"
          /\ npolls = 1
          /\ va_clicks = 1
          /\ last_outcome # "none"
          /\ ENABLED view_all_return)
  /\ [][pc = "view_all_break" => pc' = "_expand_all_reviews"]_vars

\* C20 witness: the loop has ended at its first poll, which observed no
\* item and whose click timed out
C20_Witness ==
  /\ pc = "view_all_break"
  /\ polls = <<0>>
  /\ va_clicks = 1
  /\ last_outcome = "timeout"

====
